---- MODULE Spec2Model ----
(***************************************************************************)
(* Retrieval and ranking pipeline of erse-api: search_regulations with its *)
(* article detection, regulation filter, article boost and fallback scan   *)
(* (src/services/retrieval.py), and the chunker chunk_text                 *)
(* (src/services/ingestion.py).                                            *)
(*                                                                         *)
(* Scores are fixed-point: one unit is 0.1, so 0.3 is 3, 0.9 is 9 and 1.0  *)
(* is 10.  Strings that the code inspects character by character (the      *)
(* query, the text to chunk) are sequences of one-character strings.       *)
(***************************************************************************)
EXTENDS Integers, Sequences, FiniteSets, TLC

VARIABLES
    store,          \* the collection: sequence of points in scroll (enumeration) order
    client,         \* retrieval._client: the process-wide handle, None before first use
    pc,             \* position of the search_regulations call
    query,          \* argument query
    regulations,    \* argument regulations
    k,              \* argument k
    article_num,    \* local article_num
    search_filter,  \* local search_filter
    sim,            \* the formatted similarity results, as built by lines 113-124
    chunks,         \* local chunks
    ret,            \* the returned list
    calls,          \* gateway calls made by this search, in order
    failed,         \* the step of this search that raised, "" while none has
    text,           \* chunk_text: argument text
    chunk_size,     \* chunk_text: argument chunk_size
    overlap,        \* chunk_text: argument overlap
    start,          \* chunk_text: local start
    cend,           \* chunk_text: local end, as of the last window cut
    out,            \* chunk_text: local chunks
    cpc,            \* chunk_text: position ("idle", "loop", "done")
    iter,           \* chunk_text: number of loop iterations run so far
    idargs,         \* generate_point_id: the arguments of two calls
    idout,          \* generate_point_id: the identifiers the two calls returned
    collection_exists, \* the store holds the collection settings.qdrant_collection
    creates,        \* number of create_collection calls made so far
    ensures,        \* number of ensure_collection_exists calls that returned
    ipc,            \* position of the ingest_document call
    caller,         \* who called ingest_document: "route" or "batch"
    iargs,          \* ingest_document: arguments regulation, content, article_no
    ichunks,        \* ingest_document: local chunks
    iret,           \* ingest_document: the returned count
    touched,        \* identifiers the store created or overwrote in this call
    ncalls,         \* number of ingest_document calls started so far
    repeat,         \* this call has the arguments of the call before it, which returned
    snap,           \* the collection as it was when this call began
    started,        \* startup_event: "no", "ready" or "warned"
    response,       \* what the /ingest route answered last
    bpc,            \* position of the ingest_gdpr_batch call
    barticles,      \* ingest_gdpr_batch: argument articles
    bidx,           \* ingest_gdpr_batch: index of the article at hand (from 1)
    total,          \* ingest_gdpr_batch: local total_chunks
    attempts,       \* articles whose ingestion the batch has attempted, in order
    succeeded,      \* chunk counts returned by ingest_from_url to the batch, in order
    tpc,            \* concurrent callers: position of each thread
    tlocal,         \* concurrent callers: locals of each thread
    handle,         \* the module globals _client: 0 for None, else the object
    constructed,    \* number of client objects constructed, per client kind
    got,            \* what each thread's calls returned, in order (obj 0: raised)
    dreg            \* delete_regulation_data: the argument of the last call

searchVars == <<client, pc, query, regulations, k, article_num, search_filter,
                sim, chunks, ret, calls, failed>>
chunkVars == <<text, chunk_size, overlap, start, cend, out, cpc, iter>>
idVars == <<idargs, idout>>
ingestVars == <<collection_exists, creates, ensures, ipc, caller, iargs, ichunks, iret,
                touched, ncalls, repeat, snap, started, response>>
batchVars == <<bpc, barticles, bidx, total, attempts, succeeded>>
concVars == <<tpc, tlocal, handle, constructed, got>>
delVars == <<dreg>>
extVars == <<idVars, ingestVars, batchVars, concVars, delVars>>
vars == <<store, searchVars, chunkVars, extVars>>

----------------------------------------------------------------------------
(* Bounds and program constants *)

MaxStore == 2
MaxK == 2
ScrollLimit == 100
BOOST == 3
FALLBACK_SCORE == 9
SCORE_CAP == 10
None == -1
SentenceLookback == 100
MaxLen == 4
MaxHead == 3
MaxChunk == 3
MaxOverlap == 3
MaxExtraIter == 2

Min(a, b) == IF a < b THEN a ELSE b
Max(a, b) == IF a > b THEN a ELSE b

----------------------------------------------------------------------------
(* detect_article_number: regular-expression search over the lowercased    *)
(* query                                                                   *)

UpperCase ==
    <<"A", "B", "C", "D", "E", "F", "G", "H", "I", "J", "K", "L", "M",
       "N", "O", "P", "Q", "R", "S", "T", "U", "V", "W", "X", "Y", "Z">>

LowerCase ==
    <<"a", "b", "c", "d", "e", "f", "g", "h", "i", "j", "k", "l", "m",
       "n", "o", "p", "q", "r", "s", "t", "u", "v", "w", "x", "y", "z">>

\* str.lower() on one character
LowerChar(c) ==
    IF \E i \in 1..Len(UpperCase) : UpperCase[i] = c
    THEN LowerCase[CHOOSE i \in 1..Len(UpperCase) : UpperCase[i] = c]
    ELSE c

Lower(s) == [i \in 1..Len(s) |-> LowerChar(s[i])]

IsDigit(c) == c \in {"0", "1", "2", "3", "4", "5", "6", "7", "8", "9"}

DigitVal(c) ==
    CASE c = "0" -> 0 [] c = "1" -> 1 [] c = "2" -> 2 [] c = "3" -> 3
      [] c = "4" -> 4 [] c = "5" -> 5 [] c = "6" -> 6 [] c = "7" -> 7
      [] c = "8" -> 8 [] c = "9" -> 9

IsSpace(c) == c \in {" ", "\t", "\n"}

\* s[i .. i+Len(lit)-1] = lit
LitAt(s, i, lit) ==
    /\ i + Len(lit) - 1 <= Len(s)
    /\ \A j \in 1..Len(lit) : s[i + j - 1] = lit[j]

\* \s* from position i: the first position at or after i that holds no whitespace
RECURSIVE SkipSpaces(_, _)
SkipSpaces(s, i) ==
    IF i <= Len(s) /\ IsSpace(s[i]) THEN SkipSpaces(s, i + 1) ELSE i

\* \d+ from position i, greedy: the position after the digit run (i when there is none)
RECURSIVE DigitsEnd(_, _)
DigitsEnd(s, i) ==
    IF i <= Len(s) /\ IsDigit(s[i]) THEN DigitsEnd(s, i + 1) ELSE i

\* int(group(1)) for the digit run s[i .. j-1]
RECURSIVE ParseInt(_, _, _, _)
ParseInt(s, i, j, acc) ==
    IF i >= j THEN acc ELSE ParseInt(s, i + 1, j, acc * 10 + DigitVal(s[i]))

\* A pattern is: a literal, \s* (when spaceBefore), an optional character
\* (opt, "" for none), \s*, (\d+).  The value captured by a match that
\* starts at position i, or None.
MatchAt(s, i, pat) ==
    IF ~LitAt(s, i, pat.lit) THEN None
    ELSE LET a == i + Len(pat.lit)
             b == IF pat.spaceBefore THEN SkipSpaces(s, a) ELSE a
             c == IF pat.opt # "" /\ b <= Len(s) /\ s[b] = pat.opt THEN b + 1 ELSE b
             d == SkipSpaces(s, c)
             e == DigitsEnd(s, d)
         IN  IF e > d THEN ParseInt(s, d, e, 0) ELSE None

\* re.search: the leftmost position where the pattern matches
RECURSIVE SearchFrom(_, _, _)
SearchFrom(s, i, pat) ==
    IF i > Len(s) THEN None
    ELSE IF MatchAt(s, i, pat) # None THEN MatchAt(s, i, pat)
    ELSE SearchFrom(s, i + 1, pat)

patterns ==
    << [lit |-> <<"a", "r", "t", "i", "c", "l", "e">>, spaceBefore |-> FALSE, opt |-> ""],
       [lit |-> <<"a", "r", "t">>,                     spaceBefore |-> FALSE, opt |-> "."],
       [lit |-> <<"g", "d", "p", "r">>,                spaceBefore |-> FALSE, opt |-> ""],
       [lit |-> <<"a", "r", "t", "i", "c", "l", "e">>, spaceBefore |-> TRUE,  opt |-> "#"] >>

RECURSIVE FirstPattern(_, _)
FirstPattern(s, n) ==
    IF n > Len(patterns) THEN None
    ELSE IF SearchFrom(s, 1, patterns[n]) # None THEN SearchFrom(s, 1, patterns[n])
    ELSE FirstPattern(s, n + 1)

detect_article_number(q) == FirstPattern(Lower(q), 1)

----------------------------------------------------------------------------
(* The collection.  A point has a score (its similarity to the query at    *)
(* hand, as the store computes it) and a payload; has_payload is FALSE for *)
(* a point stored without one.  content identifies the stored chunk (a     *)
(* positive number; 0 stands for the empty string).                        *)

Regulations == {"gdpr", "dsa"}
Articles == {None, 0, 7}
Scores == {3, 9}

Point(c, hp, r, a, s) ==
    [content |-> c, has_payload |-> hp, regulation |-> r, article_no |-> a, score |-> s]

\* the points a slot of the collection may hold
PointsAt(c) ==
    {Point(c, TRUE, r, a, s) : r \in Regulations, a \in Articles, s \in Scores}
        \cup {Point(c, FALSE, "", None, s) : s \in Scores}

\* a run of n further chunks (no article, low similarity) ahead of the others
Filler(n) == [i \in 1..n |-> Point(i, TRUE, "dsa", None, 1)]

Stores ==
    UNION { { Filler(pad) \o tail :
                tail \in { t \in [1..n -> UNION {PointsAt(pad + i) : i \in 1..n}] :
                             \A i \in 1..n : t[i] \in PointsAt(pad + i) } } :
            n \in 0..MaxStore, pad \in {0, ScrollLimit - 1} }

Queries ==
    { <<"A", "r", "t", ".", " ", "7">>,
      <<"a", "r", "t", "i", "c", "l", "e", " ", "0">>,
      <<"d", "a", "t", "a">> }

RegulationLists == { <<>>, <<"GDPR">>, <<"dsa", "gdpr">> }

\* str.lower() on a regulation code
LowerCode(r) ==
    CASE r = "GDPR" -> "gdpr" [] r = "DSA" -> "dsa" [] OTHER -> r

----------------------------------------------------------------------------
(* Vector store gateway: query_points and scroll                           *)

NoFilter == [kind |-> "none", values |-> <<>>]

\* lines 87-99: one condition per requested code; must for one, should for several
BuildFilter(regs) ==
    IF Len(regs) > 0
    THEN LET conditions == [i \in 1..Len(regs) |-> LowerCode(regs[i])]
         IN  IF Len(conditions) = 1
             THEN [kind |-> "must", values |-> conditions]
             ELSE [kind |-> "should", values |-> conditions]
    ELSE NoFilter

\* a FieldCondition on "regulation" holds of a point whose payload has that value
ConditionHolds(p, v) == p.has_payload /\ p.regulation = v

FilterAccepts(f, p) ==
    CASE f.kind = "none"   -> TRUE
      [] f.kind = "must"   -> \A i \in 1..Len(f.values) : ConditionHolds(p, f.values[i])
      [] f.kind = "should" -> \E i \in 1..Len(f.values) : ConditionHolds(p, f.values[i])

\* the similarity the store computes between the query at hand and a point:
\* a point of Stores carries it; the points written by ingest_document carry
\* their vector only and are taken as equally similar to every query
Similarity(p) ==
    IF "score" \in DOMAIN p THEN p.score
    ELSE CHOOSE s \in Scores : \A u \in Scores : s <= u

\* the candidate with the highest score, the earliest one among equals
ArgBest(st, cands) ==
    LET best == CHOOSE v \in {Similarity(st[i]) : i \in cands} :
                    \A w \in {Similarity(st[i]) : i \in cands} : w <= v
        firsts == {i \in cands : Similarity(st[i]) = best}
    IN  CHOOSE i \in firsts : \A j \in firsts : i <= j

RECURSIVE TopK(_, _, _)
TopK(st, cands, n) ==
    IF n <= 0 \/ cands = {} THEN <<>>
    ELSE LET b == ArgBest(st, cands)
         IN  <<st[b]>> \o TopK(st, cands \ {b}, n - 1)

\* client.query_points(query, query_filter, limit): the limit best points
\* that pass the filter, best first
QueryPoints(st, f, limit) ==
    TopK(st, {i \in 1..Len(st) : FilterAccepts(f, st[i])}, limit)

\* client.scroll(limit=100): the first points in enumeration order, unfiltered
Scroll(st) == SubSeq(st, 1, Min(Len(st), ScrollLimit))

----------------------------------------------------------------------------
(* search_regulations                                                      *)

Item(c, r, a, s) == [content |-> c, regulation |-> r, article_no |-> a, score |-> s]

\* lines 116-124: payload = result.payload or {}, with the .get defaults
FormatResult(p) ==
    IF p.has_payload THEN Item(p.content, p.regulation, p.article_no, Similarity(p))
    ELSE Item(0, "unknown", None, Similarity(p))

\* the results formatted with each one put in front of the list (insert(0, ...)
\* where line 117 appends)
FormatResultsPrepending(pts) == [i \in 1..Len(pts) |-> FormatResult(pts[Len(pts) + 1 - i])]

\* lines 114-124: chunks, one item per result, in the order of the results
FormatResults(pts) == [i \in 1..Len(pts) |-> FormatResult(pts[i])]

\* line 127: "if article_num:" is false for None and for 0
Truthy(n) == n # None /\ n # 0

\* line 136
Boosted(c) == [c EXCEPT !.score = Min(c.score + BOOST, SCORE_CAP)]

IsMatch(c, n) == c.article_no = n

\* lines 129-137, when matching is not empty
\* a reordering that keeps the matching chunks in the second part too
BoostKeepsMatching(cs, n) ==
    LET matching == SelectSeq(cs, LAMBDA c : IsMatch(c, n))
    IN  [i \in 1..Len(matching) |-> Boosted(matching[i])] \o cs

BoostPartition(cs, n) ==
    LET matching == SelectSeq(cs, LAMBDA c : IsMatch(c, n))
        non_matching == SelectSeq(cs, LAMBDA c : ~IsMatch(c, n))
    IN  [i \in 1..Len(matching) |-> Boosted(matching[i])] \o non_matching

\* lines 148-155: the item inserted for a scrolled point
FallbackItem(p) == Item(p.content, p.regulation, p.article_no, FALLBACK_SCORE)

\* lines 146-155: the loop over the scrolled points.  point.payload.get
\* raises on the first point without payload, which ends the loop with the
\* inserts made so far kept (the except of line 156 only logs); each insert
\* goes in front of the earlier ones
ScanPoints(pts, n, cs) ==
    LET bad == {i \in 1..Len(pts) : ~pts[i].has_payload}
        stop == IF bad = {} THEN Len(pts) + 1
                ELSE CHOOSE i \in bad : \A j \in bad : i <= j
        found == SelectSeq(SubSeq(pts, 1, stop - 1), LAMBDA p : p.article_no = n)
    IN  [i \in 1..Len(found) |-> FallbackItem(found[Len(found) + 1 - i])] \o cs

\* does the loop of lines 146-155 raise
ScanRaises(pts) == \E i \in 1..Len(pts) : ~pts[i].has_payload

\* the list returned whole ("return chunks" where line 159 slices)
TruncateNone(cs, n) == cs

\* line 159
Truncate(cs, n) == SubSeq(cs, 1, Min(Len(cs), n))

----------------------------------------------------------------------------
(* State machine of one search_regulations call on a given collection      *)

SearchIdle ==
    /\ client = "none"
    /\ pc = "idle"
    /\ query = <<>>
    /\ regulations = <<>>
    /\ k = 0
    /\ article_num = None
    /\ search_filter = NoFilter
    /\ sim = <<>>
    /\ chunks = <<>>
    /\ ret = <<>>
    /\ calls = <<>>
    /\ failed = ""

ChunkIdle ==
    /\ text = <<>>
    /\ chunk_size = 0
    /\ overlap = 0
    /\ start = 0
    /\ cend = 0
    /\ out = <<>>
    /\ cpc = "idle"
    /\ iter = 0

IdIdle ==
    /\ idargs = <<>>
    /\ idout = <<>>

NoArgs == [regulation |-> "", content |-> <<>>, article_no |-> None]

IngestIdle ==
    /\ creates = 0
    /\ ensures = 0
    /\ ipc = "idle"
    /\ caller = ""
    /\ iargs = NoArgs
    /\ ichunks = <<>>
    /\ iret = None
    /\ touched = {}
    /\ ncalls = 0
    /\ repeat = FALSE
    /\ snap = <<>>
    /\ started = "no"
    /\ response = ""

BatchIdle ==
    /\ bpc = "idle"
    /\ barticles = <<>>
    /\ bidx = 0
    /\ total = 0
    /\ attempts = <<>>
    /\ succeeded = <<>>

ConcIdle ==
    /\ dreg = ""
    /\ tpc = <<>>
    /\ tlocal = <<>>
    /\ handle = <<>>
    /\ constructed = <<>>
    /\ got = <<>>

Init ==
    /\ store \in Stores
    /\ SearchIdle
    /\ ChunkIdle
    /\ IdIdle
    /\ IngestIdle
    /\ collection_exists = TRUE
    /\ BatchIdle
    /\ ConcIdle

\* the route calls search_regulations(query, regulations, k), 1 <= k <= 20
Call(q, regs, kk) ==
    /\ pc = "idle"
    /\ pc' = "get_client"
    /\ query' = q
    /\ regulations' = regs
    /\ k' = kk
    /\ UNCHANGED <<store, client, article_num, search_filter, sim, chunks, ret,
                   calls, failed, chunkVars, extVars>>

\* line 79, then line 82 (which calls no gateway)
GetClientOk ==
    /\ pc = "get_client"
    /\ client' = "qdrant"
    /\ calls' = Append(calls, "get_client")
    /\ article_num' = detect_article_number(query)
    /\ pc' = "embed"
    /\ UNCHANGED <<store, query, regulations, k, search_filter, sim, chunks, ret,
                   failed, chunkVars, extVars>>

\* line 79: constructing the client raises; nothing catches it
GetClientRaises ==
    /\ pc = "get_client"
    /\ client = "none"
    /\ calls' = Append(calls, "get_client")
    /\ failed' = "get_client"
    /\ pc' = "raised"
    /\ UNCHANGED <<store, client, query, regulations, k, article_num, search_filter,
                   sim, chunks, ret, chunkVars, extVars>>

\* line 85, then lines 87-99
EmbedOk ==
    /\ pc = "embed"
    /\ calls' = Append(calls, "embed")
    /\ search_filter' = BuildFilter(regulations)
    /\ pc' = "query"
    /\ UNCHANGED <<store, client, query, regulations, k, article_num, sim, chunks,
                   ret, failed, chunkVars, extVars>>

\* line 85: get_embedding raises (embeddings.py lines 28-31); nothing catches it
EmbedRaises ==
    /\ pc = "embed"
    /\ calls' = Append(calls, "embed")
    /\ failed' = "embed"
    /\ pc' = "raised"
    /\ UNCHANGED <<store, client, query, regulations, k, article_num, search_filter,
                   sim, chunks, ret, chunkVars, extVars>>

\* lines 101-108 and 113-124
QueryOk ==
    /\ pc = "query"
    /\ calls' = Append(calls, "query_points")
    /\ sim' = FormatResults(QueryPoints(store, search_filter, k))
    /\ chunks' = sim'
    /\ pc' = "rerank"
    /\ UNCHANGED <<store, client, query, regulations, k, article_num, search_filter,
                   ret, failed, chunkVars, extVars>>

\* the failure logged and the search carried on with no results ("results = []"
\* where line 111 returns)
QueryRaisesContinues ==
    /\ pc = "query"
    /\ calls' = Append(calls, "query_points")
    /\ failed' = "query_points"
    /\ sim' = <<>>
    /\ chunks' = <<>>
    /\ pc' = "rerank"
    /\ UNCHANGED <<store, client, query, regulations, k, article_num, search_filter,
                   ret, chunkVars, extVars>>

\* lines 109-111
QueryRaises ==
    /\ pc = "query"
    /\ calls' = Append(calls, "query_points")
    /\ failed' = "query_points"
    /\ ret' = <<>>
    /\ pc' = "returned"
    /\ UNCHANGED <<store, client, query, regulations, k, article_num, search_filter,
                   sim, chunks, chunkVars, extVars>>

HasMatching == \E i \in 1..Len(chunks) : IsMatch(chunks[i], article_num)

\* line 127 false, then line 159
ReturnPlain ==
    /\ pc = "rerank"
    /\ ~Truthy(article_num)
    /\ ret' = Truncate(chunks, k)
    /\ pc' = "returned"
    /\ UNCHANGED <<store, client, query, regulations, k, article_num, search_filter,
                   sim, chunks, calls, failed, chunkVars, extVars>>

\* lines 127-137, then line 159
Boost ==
    /\ pc = "rerank"
    /\ Truthy(article_num)
    /\ HasMatching
    /\ chunks' = BoostPartition(chunks, article_num)
    /\ ret' = Truncate(chunks', k)
    /\ pc' = "returned"
    /\ UNCHANGED <<store, client, query, regulations, k, article_num, search_filter,
                   sim, calls, failed, chunkVars, extVars>>

\* lines 138-157 with scroll answering, then line 159
Fallback ==
    /\ pc = "rerank"
    /\ Truthy(article_num)
    /\ ~HasMatching
    /\ calls' = Append(calls, "scroll")
    /\ chunks' = ScanPoints(Scroll(store), article_num, chunks)
    /\ failed' = IF ScanRaises(Scroll(store)) THEN "scan" ELSE failed
    /\ ret' = Truncate(chunks', k)
    /\ pc' = "returned"
    /\ UNCHANGED <<store, client, query, regulations, k, article_num, search_filter,
                   sim, chunkVars, extVars>>

\* lines 140-145 raising, caught by line 156, then line 159
FallbackScrollRaises ==
    /\ pc = "rerank"
    /\ Truthy(article_num)
    /\ ~HasMatching
    /\ calls' = Append(calls, "scroll")
    /\ failed' = "scroll"
    /\ ret' = Truncate(chunks, k)
    /\ pc' = "returned"
    /\ UNCHANGED <<store, client, query, regulations, k, article_num, search_filter,
                   sim, chunks, chunkVars, extVars>>

Next ==
    \/ \E q \in Queries, regs \in RegulationLists, kk \in 1..MaxK : Call(q, regs, kk)
    \/ GetClientOk
    \/ GetClientRaises
    \/ EmbedOk
    \/ EmbedRaises
    \/ QueryOk
    \/ QueryRaises
    \/ ReturnPlain
    \/ Boost
    \/ Fallback
    \/ FallbackScrollRaises

Spec == Init /\ [][Next]_vars

----------------------------------------------------------------------------
(* chunk_text.  start and cend hold Python's 0-based indices; the          *)
(* character at Python index i is text[i + 1].                             *)

Alphabet == {"a", ".", " "}

ShortTexts == UNION {[1..n -> Alphabet] : n \in 0..MaxLen}

\* texts of nearly SentenceLookback characters: for these the negative start
\* index that rfind is given at the first windows wraps to a position after
\* the start of the text
LongTexts ==
    {t \o [i \in 1..(SentenceLookback - MaxHead - 2) |-> "a"] :
        t \in {h \in ShortTexts : Len(h) <= MaxHead}}

Texts == ShortTexts \cup LongTexts

\* how str.rfind and slicing read an index: negative counts from the end, then clamp
AdjustIndex(i, n) ==
    IF i > n THEN n ELSE IF i < 0 THEN Max(i + n, 0) ELSE i

\* text.rfind('. ', lo, hi): the highest index in [lo, hi - 2] where '. '
\* begins, -1 when there is none
RFindPeriod(t, lo, hi) ==
    LET l == AdjustIndex(lo, Len(t))
        h == AdjustIndex(hi, Len(t))
        found == {i \in l..(h - 2) : t[i + 1] = "." /\ t[i + 2] = " "}
    IN  IF found = {} THEN -1 ELSE CHOOSE i \in found : \A j \in found : j <= i

\* text[a:b] for a >= 0
Slice(t, a, b) == SubSeq(t, a + 1, AdjustIndex(b, Len(t)))

\* s has a character that is not whitespace
NonSpace(s) == \E i \in 1..Len(s) : ~IsSpace(s[i])

LStrip(s) ==
    IF ~NonSpace(s) THEN <<>>
    ELSE SubSeq(s, CHOOSE i \in 1..Len(s) :
                       ~IsSpace(s[i]) /\ \A j \in 1..(i - 1) : IsSpace(s[j]),
                Len(s))

RStrip(s) ==
    IF ~NonSpace(s) THEN <<>>
    ELSE LET n == Len(s)
             back == CHOOSE i \in 1..n :
                      ~IsSpace(s[n + 1 - i]) /\ \A j \in 1..(i - 1) : IsSpace(s[n + 1 - j])
         IN  SubSeq(s, 1, n + 1 - back)

\* str.strip()
Strip(s) == RStrip(LStrip(s))

\* lines 27-34: the end of the window that starts at st
WindowEnd(t, st, cs) ==
    LET end == st + cs
    IN  IF end < Len(t)
        THEN LET last_period == RFindPeriod(t, end - SentenceLookback, end)
             IN  IF last_period > st THEN last_period + 1 ELSE end
        ELSE end

\* lines 40-42
NextStart(end, ov) == IF end - ov < 0 THEN 0 ELSE end - ov

InitChunk ==
    /\ store = <<>>
    /\ SearchIdle
    /\ ChunkIdle
    /\ IdIdle
    /\ IngestIdle
    /\ collection_exists = TRUE
    /\ BatchIdle
    /\ ConcIdle

\* lines 20-21
ChunkShort(t, cs, ov) ==
    /\ cpc = "idle"
    /\ Len(t) <= cs
    /\ text' = t
    /\ chunk_size' = cs
    /\ overlap' = ov
    /\ out' = <<t>>
    /\ cpc' = "done"
    /\ UNCHANGED <<store, searchVars, extVars, start, cend, iter>>

\* lines 23-24
ChunkBegin(t, cs, ov) ==
    /\ cpc = "idle"
    /\ Len(t) > cs
    /\ text' = t
    /\ chunk_size' = cs
    /\ overlap' = ov
    /\ out' = <<>>
    /\ start' = 0
    /\ cpc' = "loop"
    /\ UNCHANGED <<store, searchVars, extVars, cend, iter>>

\* lines 26-42: one iteration of the while loop.  A run that ends takes at
\* most Len(text) iterations (start is below Len(text) at each and a start
\* that comes back repeats for ever), so the cap only cuts runs that never end.
ChunkStep ==
    /\ cpc = "loop"
    /\ start < Len(text)
    /\ iter < Len(text) + MaxExtraIter
    /\ LET end == WindowEnd(text, start, chunk_size)
           chunk == Strip(Slice(text, start, end))
       IN  /\ out' = IF chunk # <<>> THEN Append(out, chunk) ELSE out
           /\ cend' = end
           /\ start' = NextStart(end, overlap)
    /\ iter' = iter + 1
    /\ UNCHANGED <<store, searchVars, extVars, text, chunk_size, overlap, cpc>>

\* line 26 false, then line 44
ChunkExit ==
    /\ cpc = "loop"
    /\ start >= Len(text)
    /\ cpc' = "done"
    /\ UNCHANGED <<store, searchVars, extVars, text, chunk_size, overlap, start, cend, out, iter>>

NextChunk ==
    \/ \E t \in Texts, cs \in 1..MaxChunk, ov \in 0..MaxOverlap : ChunkShort(t, cs, ov)
    \/ \E t \in Texts, cs \in 1..MaxChunk, ov \in 0..MaxOverlap : ChunkBegin(t, cs, ov)
    \/ ChunkStep
    \/ ChunkExit

SpecChunk == InitChunk /\ [][NextChunk]_vars

----------------------------------------------------------------------------
(* generate_point_id (services/ingestion.py).  The identifier is the MD5   *)
(* digest of the key string, written as a UUID; the digest is modelled as  *)
(* an injective function of the key, so two identifiers are equal exactly  *)
(* when the keys are.                                                      *)

IdPrefixLen == 100

DigitChars == <<"0", "1", "2", "3", "4", "5", "6", "7", "8", "9">>

\* str(n) for n >= 0
RECURSIVE NatStr(_)
NatStr(n) ==
    IF n < 10 THEN <<DigitChars[n + 1]>>
    ELSE NatStr(n \div 10) \o <<DigitChars[(n % 10) + 1]>>

\* how the f-string writes article_no
ArticleStr(a) == IF a = None THEN <<"N", "o", "n", "e">> ELSE NatStr(a)

\* the characters of a regulation code
RegulationChars(r) ==
    CASE r = "gdpr" -> <<"g", "d", "p", "r">>
      [] r = "dsa" -> <<"d", "s", "a">>
      [] r = "GDPR" -> <<"G", "D", "P", "R">>
      [] OTHER -> <<>>

\* content[:100]
Prefix(content) == SubSeq(content, 1, Min(Len(content), IdPrefixLen))

\* line 49
PointKey(content, regulation, article_no) ==
    RegulationChars(regulation) \o <<"_">> \o ArticleStr(article_no) \o <<"_">>
        \o Prefix(content)

\* the whole content in the key instead of its first 100 characters
GeneratePointIdWholeContent(content, regulation, article_no) ==
    <<"uuid", RegulationChars(regulation) \o <<"_">> \o ArticleStr(article_no)
                  \o <<"_">> \o content>>

\* lines 47-52
generate_point_id(content, regulation, article_no) ==
    <<"uuid", PointKey(content, regulation, article_no)>>

Repeat(c, n) == [i \in 1..n |-> c]

MaxTail == 1

\* contents shorter than, as long as and longer than the prefix; the long
\* ones agree on their first 100 characters and differ after them
IdContents ==
    {<<>>, <<"a">>, <<"b">>, <<"1">>, Repeat("a", IdPrefixLen)}
        \cup {Repeat("a", IdPrefixLen) \o t :
                 t \in UNION {[1..n -> {"a", "b"}] : n \in 1..MaxTail}}

IdRegulations == {"gdpr", "dsa"}

IdArticles == {None, 0, 7, 71}

IdArgs == [content : IdContents, regulation : IdRegulations, article_no : IdArticles]

InitId ==
    /\ store = <<>>
    /\ SearchIdle
    /\ ChunkIdle
    /\ IdIdle
    /\ IngestIdle
    /\ collection_exists = TRUE
    /\ BatchIdle
    /\ ConcIdle

\* two calls of generate_point_id
GenerateIds(x, y) ==
    /\ idout = <<>>
    /\ idargs' = <<x, y>>
    /\ idout' = <<generate_point_id(x.content, x.regulation, x.article_no),
                  generate_point_id(y.content, y.regulation, y.article_no)>>
    /\ UNCHANGED <<store, searchVars, chunkVars, ingestVars, batchVars, concVars, delVars>>

NextId == \E x \in IdArgs, y \in IdArgs : GenerateIds(x, y)

SpecId == InitId /\ [][NextId]_vars

----------------------------------------------------------------------------
(* ensure_collection_exists (services/retrieval.py), ingest_document,      *)
(* ingest_from_url and ingest_gdpr_batch (services/ingestion.py), the      *)
(* /ingest route (routes/ingest.py) and startup_event (main.py).  In this  *)
(* part store holds the points of the collection in the order they were    *)
(* first written; a point is its identifier and its payload (title and url *)
(* are copied from the arguments and left out, and the vector is a         *)
(* function of the chunk).  Calls are sequential.                          *)

DefaultChunkSize == 1000
DefaultOverlap == 200

MaxIngests == 2
MaxBatch == 2

\* lines 26-42 of chunk_text, from the window that starts at st; a run that
\* ends takes at most Len(t) windows
RECURSIVE ChunkLoop(_, _, _, _, _, _)
ChunkLoop(t, cs, ov, st, acc, fuel) ==
    IF st >= Len(t) \/ fuel = 0 THEN acc
    ELSE LET end == WindowEnd(t, st, cs)
             chunk == Strip(Slice(t, st, end))
         IN  ChunkLoop(t, cs, ov, NextStart(end, ov),
                       IF chunk # <<>> THEN Append(acc, chunk) ELSE acc, fuel - 1)

\* chunk_text as a function: lines 18-44
chunk_text(t, cs, ov) ==
    IF Len(t) <= cs THEN <<t>> ELSE ChunkLoop(t, cs, ov, 0, <<>>, Len(t))

\* a long text whose two chunks begin with the same 100 characters
LongSame == Repeat("a", DefaultChunkSize + DefaultOverlap)

\* a long text whose two chunks begin differently
LongDiffer ==
    Repeat("a", DefaultChunkSize - DefaultOverlap) \o Repeat("b", 2 * DefaultOverlap)

\* a long text of spaces: every window is discarded
LongBlank == Repeat(" ", DefaultChunkSize + 1)

Contents == {<<>>, <<" ">>, <<"a">>, LongSame, LongDiffer, LongBlank}

\* the arguments of the requests: one regulation and one article number, so
\* that two requests differ in their content
IngestRegulations == {"gdpr"}

IngestArticles == {7}

\* the article number scrape_gdpr_article reads from the url, None when the
\* url has none
ScrapedArticles == {None, 7}

BatchArticles == {1, 7}

\* what scrape_gdpr_article returns: {} (also on every exception), or the
\* article number read from the url with the paragraphs, each stripped,
\* joined by one space
NoData == [content |-> <<>>, article_no |-> None, empty |-> TRUE]

Scrapes ==
    [content : {c \in Contents : Strip(c) = c}, article_no : ScrapedArticles,
     empty : {FALSE}]

\* lines 149-164
BuildPoints(cs, regulation, article_no) ==
    [i \in 1..Len(cs) |->
        [id |-> generate_point_id(cs[i], regulation, article_no),
         has_payload |-> TRUE,
         content |-> cs[i],
         regulation |-> LowerCode(regulation),
         article_no |-> article_no,
         chunk_index |-> i - 1]]

PointIds(pts) == {pts[i].id : i \in 1..Len(pts)}

\* upsert of one point: a point with the same id is replaced where it is
UpsertOne(st, p) ==
    IF \E i \in 1..Len(st) : st[i].id = p.id
    THEN [i \in 1..Len(st) |-> IF st[i].id = p.id THEN p ELSE st[i]]
    ELSE Append(st, p)

\* a store that adds every point it is given
UpsertAppends(st, pts) == st \o pts

\* a store that keeps only the points of the last write
UpsertRecreates(st, pts) == pts

\* client.upsert, lines 167-171: the points are written in order
RECURSIVE Upsert(_, _)
Upsert(st, pts) ==
    IF pts = <<>> THEN st ELSE Upsert(UpsertOne(st, Head(pts)), Tail(pts))

\* the collection before the process starts: absent, empty, or holding a
\* point written by an earlier run
InitialStores == {<<>>, BuildPoints(<<<<"a">>>>, "gdpr", 7)}

InitIngest ==
    /\ collection_exists \in BOOLEAN
    /\ store \in IF collection_exists THEN InitialStores ELSE {<<>>}
    /\ SearchIdle
    /\ ChunkIdle
    /\ IdIdle
    /\ IngestIdle
    /\ BatchIdle
    /\ ConcIdle

EnsureOutcomes == {"ok", "get_collections_raises", "create_collection_raises"}

\* create_collection called whether or not the collection is there
EnsureCreatesAlways(o) ==
    /\ o \in {"ok", "create_collection_raises"}
    /\ creates' = creates + 1
    /\ collection_exists' = (collection_exists \/ o = "ok")
    /\ ensures' = ensures + 1

\* retrieval.py lines 39-53; o is what the store does
ensure_collection_exists(o) ==
    /\ o = "create_collection_raises" => ~collection_exists
    /\ creates' = IF ~collection_exists /\ o # "get_collections_raises"
                  THEN creates + 1 ELSE creates
    /\ collection_exists' = (collection_exists \/ o = "ok")
    /\ ensures' = ensures + 1

\* no call of ingest_document or ingest_gdpr_batch is under way
IngestFree == ipc = "idle" /\ bpc \in {"idle", "done"}

\* main.py lines 42-54: the exception is caught and logged
Startup(o) ==
    /\ started = "no"
    /\ IngestFree
    /\ ensure_collection_exists(o)
    /\ started' = IF o = "ok" THEN "ready" ELSE "warned"
    /\ UNCHANGED <<store, searchVars, chunkVars, idVars, concVars, delVars, batchVars, ipc, caller,
                   iargs, ichunks, iret, touched, ncalls, repeat, snap, response>>

\* entry of ingest_document, lines 131-138
StartIngest(who, regulation, content, article_no) ==
    LET args == [regulation |-> regulation, content |-> content,
                 article_no |-> article_no]
    IN  /\ ipc' = "ensure"
        /\ caller' = who
        /\ iargs' = args
        /\ ichunks' = <<>>
        /\ iret' = None
        /\ touched' = {}
        /\ ncalls' = ncalls + 1
        /\ repeat' = (iret # None /\ iargs = args)
        /\ snap' = store

\* routes/ingest.py lines 25-33: request.content is not empty
RouteIngest(regulation, content, article_no) ==
    /\ IngestFree
    /\ started # "no"
    /\ ncalls < MaxIngests
    /\ content # <<>>
    /\ StartIngest("route", regulation, content, article_no)
    /\ response' = ""
    /\ UNCHANGED <<store, searchVars, chunkVars, idVars, concVars, delVars, batchVars,
                   collection_exists, creates, ensures, started>>

\* routes/ingest.py lines 34-47 with ingest_from_url, lines 177-189:
\* request.content is None or empty
RouteIngestUrl(regulation, article_no, data) ==
    /\ IngestFree
    /\ started # "no"
    /\ ncalls < MaxIngests
    /\ IF data.empty
       THEN /\ response' = "no_content"
            /\ UNCHANGED <<ipc, caller, iargs, ichunks, iret, touched, ncalls,
                           repeat, snap>>
       ELSE /\ StartIngest("route", regulation, data.content,
                           IF Truthy(data.article_no) THEN data.article_no
                           ELSE article_no)
            /\ response' = ""
    /\ UNCHANGED <<store, searchVars, chunkVars, idVars, concVars, delVars, batchVars,
                   collection_exists, creates, ensures, started>>

\* lines 139-143
IngestEnsure(o) ==
    /\ ipc = "ensure"
    /\ ensure_collection_exists(o)
    /\ ipc' = IF o = "ok" THEN "embed" ELSE "raised"
    /\ ichunks' = IF o = "ok"
                  THEN chunk_text(iargs.content, DefaultChunkSize, DefaultOverlap)
                  ELSE ichunks
    /\ UNCHANGED <<store, searchVars, chunkVars, idVars, concVars, delVars, batchVars, caller, iargs,
                   iret, touched, ncalls, repeat, snap, started, response>>

\* line 146
IngestEmbedOk ==
    /\ ipc = "embed"
    /\ ipc' = "upsert"
    /\ UNCHANGED <<store, searchVars, chunkVars, idVars, concVars, delVars, batchVars,
                   collection_exists, creates, ensures, caller, iargs, ichunks, iret,
                   touched, ncalls, repeat, snap, started, response>>

\* line 146: get_embedding raises
IngestEmbedRaises ==
    /\ ipc = "embed"
    /\ ipc' = "raised"
    /\ UNCHANGED <<store, searchVars, chunkVars, idVars, concVars, delVars, batchVars,
                   collection_exists, creates, ensures, caller, iargs, ichunks, iret,
                   touched, ncalls, repeat, snap, started, response>>

\* lines 149-174
IngestUpsertOk ==
    /\ ipc = "upsert"
    /\ LET points == BuildPoints(ichunks, iargs.regulation, iargs.article_no)
       IN  /\ store' = Upsert(store, points)
           /\ touched' = PointIds(points)
           /\ iret' = Len(points)
           /\ succeeded' = IF caller = "batch" THEN Append(succeeded, Len(points))
                           ELSE succeeded
    /\ ipc' = "returned"
    /\ UNCHANGED <<searchVars, chunkVars, idVars, concVars, delVars, collection_exists, creates,
                   ensures, caller, iargs, ichunks, ncalls, repeat, snap, started,
                   response, bpc, barticles, bidx, total, attempts>>

\* lines 167-171: client.upsert raises and nothing is written
IngestUpsertRaises ==
    /\ ipc = "upsert"
    /\ ichunks # <<>>
    /\ ipc' = "raised"
    /\ UNCHANGED <<store, searchVars, chunkVars, idVars, concVars, delVars, batchVars,
                   collection_exists, creates, ensures, caller, iargs, ichunks, iret,
                   touched, ncalls, repeat, snap, started, response>>

\* routes/ingest.py lines 42-58
RouteRespond ==
    /\ caller = "route"
    /\ ipc \in {"returned", "raised"}
    /\ response' = IF ipc = "raised" THEN "http_500"
                   ELSE IF iret = 0 THEN "no_content" ELSE "success"
    /\ ipc' = "idle"
    /\ UNCHANGED <<store, searchVars, chunkVars, idVars, concVars, delVars, batchVars,
                   collection_exists, creates, ensures, caller, iargs, ichunks, iret,
                   touched, ncalls, repeat, snap, started>>

\* lines 192-197
BatchStart(articles) ==
    /\ IngestFree
    /\ bpc = "idle"
    /\ ncalls + Len(articles) <= MaxIngests
    /\ bpc' = "loop"
    /\ barticles' = articles
    /\ bidx' = 1
    /\ total' = 0
    /\ attempts' = <<>>
    /\ succeeded' = <<>>
    /\ UNCHANGED <<store, searchVars, chunkVars, idVars, concVars, delVars, ingestVars>>

\* lines 198-201 with ingest_from_url: the url is built from art_no, so the
\* scraped article number is art_no; with no data ingest_from_url returns 0
BatchItem(data) ==
    /\ bpc = "loop"
    /\ bidx <= Len(barticles)
    /\ attempts' = Append(attempts, barticles[bidx])
    /\ IF data.empty
       THEN /\ bidx' = bidx + 1
            /\ UNCHANGED <<bpc, ipc, caller, iargs, ichunks, iret, touched, ncalls,
                           repeat, snap>>
       ELSE /\ StartIngest("batch", "gdpr", data.content, barticles[bidx])
            /\ bpc' = "ingesting"
            /\ UNCHANGED bidx
    /\ UNCHANGED <<store, searchVars, chunkVars, idVars, concVars, delVars, collection_exists, creates,
                   ensures, started, response, barticles, total, succeeded>>

\* lines 201-203
BatchCollect ==
    /\ bpc = "ingesting"
    /\ ipc = "returned"
    /\ total' = total + iret
    /\ bidx' = bidx + 1
    /\ bpc' = "loop"
    /\ ipc' = "idle"
    /\ UNCHANGED <<store, searchVars, chunkVars, idVars, concVars, delVars, collection_exists, creates,
                   ensures, caller, iargs, ichunks, iret, touched, ncalls, repeat,
                   snap, started, response, barticles, attempts, succeeded>>

\* the loop ends at the first article that fails
BatchCatchAborts ==
    /\ bpc = "ingesting"
    /\ ipc = "raised"
    /\ bpc' = "done"
    /\ ipc' = "idle"
    /\ UNCHANGED <<store, searchVars, chunkVars, idVars, concVars, delVars, collection_exists, creates,
                   ensures, caller, iargs, ichunks, iret, touched, ncalls, repeat,
                   snap, started, response, barticles, bidx, total, attempts,
                   succeeded>>

\* lines 204-205
BatchCatch ==
    /\ bpc = "ingesting"
    /\ ipc = "raised"
    /\ bidx' = bidx + 1
    /\ bpc' = "loop"
    /\ ipc' = "idle"
    /\ UNCHANGED <<store, searchVars, chunkVars, idVars, concVars, delVars, collection_exists, creates,
                   ensures, caller, iargs, ichunks, iret, touched, ncalls, repeat,
                   snap, started, response, barticles, total, attempts, succeeded>>

\* line 207
BatchReturn ==
    /\ bpc = "loop"
    /\ bidx > Len(barticles)
    /\ bpc' = "done"
    /\ UNCHANGED <<store, searchVars, chunkVars, idVars, concVars, delVars, ingestVars, barticles,
                   bidx, total, attempts, succeeded>>

ArticleLists == UNION {[1..n -> BatchArticles] : n \in 0..MaxBatch}

NextIngest ==
    \/ \E o \in EnsureOutcomes : Startup(o)
    \/ \E r \in IngestRegulations, c \in Contents, a \in IngestArticles :
           RouteIngest(r, c, a)
    \/ \E r \in IngestRegulations, a \in IngestArticles,
          d \in Scrapes \cup {NoData} : RouteIngestUrl(r, a, d)
    \/ \E o \in EnsureOutcomes : IngestEnsure(o)
    \/ IngestEmbedOk
    \/ IngestEmbedRaises
    \/ IngestUpsertOk
    \/ IngestUpsertRaises
    \/ RouteRespond
    \/ \E as \in ArticleLists : BatchStart(as)
    \/ \E d \in Scrapes \cup {NoData} : BatchItem(d)
    \/ BatchCollect
    \/ BatchCatch
    \/ BatchReturn

SpecIngest == InitIngest /\ [][NextIngest]_vars

----------------------------------------------------------------------------
(* detect_article_number on its own: queries built from a leading word, a  *)
(* form, whitespace, a digit run and a tail                                *)

MaxDigits == 2

QueryHeads == {<<>>, <<"x", " ">>}

QueryForms ==
    { <<"a", "r", "t", "i", "c", "l", "e">>,
      <<"A", "r", "t", "i", "c", "l", "e">>,
      <<"a", "r", "t">>,
      <<"a", "r", "t", ".">>,
      <<"A", "R", "T", ".">>,
      <<"a", "r", "t", "i", "c", "l", "e", " ", "#">>,
      <<"g", "d", "p", "r">>,
      <<"G", "D", "P", "R">>,
      <<"d", "s", "a">>,
      <<"n", "i", "s", "2">>,
      <<"a", "i", "a", "c", "t">>,
      <<"d", "a", "t", "a">> }

QuerySeps == {<<>>, <<" ">>}

QueryNumbers == UNION {[1..n -> {"0", "7"}] : n \in 0..MaxDigits}

\* tails that hold no form, and tails that hold a second one
PlainTails == {<<>>, <<" ", "x">>}

FormTails == {<<" ", "g", "d", "p", "r", " ", "3">>, <<" ", "a", "r", "t", "i", "c", "l", "e", " ", "4">>}

DetectQueries ==
    {h \o f \o s \o n \o t :
        h \in QueryHeads, f \in QueryForms, s \in QuerySeps, n \in QueryNumbers,
        t \in PlainTails \cup FormTails}

InitDetect ==
    /\ store = <<>>
    /\ SearchIdle
    /\ ChunkIdle
    /\ IdIdle
    /\ IngestIdle
    /\ collection_exists = TRUE
    /\ BatchIdle
    /\ ConcIdle

\* retrieval.py line 82
Detect(q) ==
    /\ pc = "idle"
    /\ query' = q
    /\ article_num' = detect_article_number(q)
    /\ pc' = "detected"
    /\ UNCHANGED <<store, client, regulations, k, search_filter, sim, chunks, ret,
                   calls, failed, chunkVars, extVars>>

NextDetect == \E q \in DetectQueries : Detect(q)

SpecDetect == InitDetect /\ [][NextDetect]_vars

----------------------------------------------------------------------------
(* get_qdrant_client (services/retrieval.py) and get_openai_client         *)
(* (services/embeddings.py) called from several threads.  Thread 0 is the  *)
(* event loop: it runs startup_event, whose first statement calls          *)
(* get_qdrant_client, and then the request handlers one after another.     *)
(* The other threads are the pool threads on which the batch ingestions    *)
(* added with background_tasks.add_task run.  A step is what one thread    *)
(* does between two points where the interpreter may switch threads.       *)

MaxWorkers == 1
MaxClientCalls == 2

Threads == 0..MaxWorkers

ClientKinds == {"qdrant", "openai"}

NoLocals == [kind |-> "", obj |-> 0, calls |-> 0]

InitClient ==
    /\ store = <<>>
    /\ SearchIdle
    /\ ChunkIdle
    /\ IdIdle
    /\ IngestIdle
    /\ collection_exists = TRUE
    /\ BatchIdle
    /\ dreg = ""
    /\ tpc = [t \in Threads |-> "idle"]
    /\ tlocal = [t \in Threads |-> NoLocals]
    /\ handle = [c \in ClientKinds |-> 0]
    /\ constructed = [c \in ClientKinds |-> 0]
    /\ got = [t \in Threads |-> <<>>]

\* the call of thread t that is under way is the one startup_event makes
InStartup(t) == t = 0 /\ started = "no"

\* a thread calls get_qdrant_client or get_openai_client; requests are
\* served and background tasks run only after startup_event has ended
ClientEnter(t, c) ==
    /\ tpc[t] = "idle"
    /\ tlocal[t].calls < MaxClientCalls
    /\ IF started = "no" THEN t = 0 /\ c = "qdrant" ELSE TRUE
    /\ tpc' = [tpc EXCEPT ![t] = "check"]
    /\ tlocal' = [tlocal EXCEPT ![t] = [kind |-> c, obj |-> 0, calls |-> @.calls + 1]]
    /\ UNCHANGED <<store, searchVars, chunkVars, idVars, delVars, ingestVars, batchVars,
                   handle, constructed, got>>

\* "if _client is None": retrieval.py line 26, embeddings.py line 16
ClientCheck(t) ==
    /\ tpc[t] = "check"
    /\ tpc' = [tpc EXCEPT ![t] = IF handle[tlocal[t].kind] = 0
                                 THEN "construct" ELSE "return"]
    /\ UNCHANGED <<store, searchVars, chunkVars, idVars, delVars, ingestVars, batchVars,
                   tlocal, handle, constructed, got>>

\* the constructor call of retrieval.py lines 27-34, embeddings.py line 17
ClientConstructOk(t) ==
    /\ tpc[t] = "construct"
    /\ constructed' = [constructed EXCEPT ![tlocal[t].kind] = @ + 1]
    /\ tlocal' = [tlocal EXCEPT ![t].obj = constructed[tlocal[t].kind] + 1]
    /\ tpc' = [tpc EXCEPT ![t] = "assign"]
    /\ UNCHANGED <<store, searchVars, chunkVars, idVars, delVars, ingestVars, batchVars,
                   handle, got>>

\* the constructor raises; startup_event catches and logs it (main.py
\* lines 50-52), elsewhere it reaches the caller
ClientConstructRaises(t) ==
    /\ tpc[t] = "construct"
    /\ tpc' = [tpc EXCEPT ![t] = "idle"]
    /\ got' = [got EXCEPT ![t] = Append(@, [kind |-> tlocal[t].kind, obj |-> 0])]
    /\ started' = IF InStartup(t) THEN "warned" ELSE started
    /\ UNCHANGED <<store, searchVars, chunkVars, idVars, delVars, batchVars, tlocal, handle,
                   constructed, collection_exists, creates, ensures, ipc, caller,
                   iargs, ichunks, iret, touched, ncalls, repeat, snap, response>>

\* the store to the global _client
ClientAssign(t) ==
    /\ tpc[t] = "assign"
    /\ handle' = [handle EXCEPT ![tlocal[t].kind] = tlocal[t].obj]
    /\ tpc' = [tpc EXCEPT ![t] = "return"]
    /\ UNCHANGED <<store, searchVars, chunkVars, idVars, delVars, ingestVars, batchVars,
                   tlocal, constructed, got>>

\* "return _client": retrieval.py line 36, embeddings.py line 18
ClientReturn(t) ==
    /\ tpc[t] = "return"
    /\ got' = [got EXCEPT ![t] =
                 Append(@, [kind |-> tlocal[t].kind, obj |-> handle[tlocal[t].kind]])]
    /\ tpc' = [tpc EXCEPT ![t] = "idle"]
    /\ started' = IF InStartup(t) THEN "ready" ELSE started
    /\ UNCHANGED <<store, searchVars, chunkVars, idVars, delVars, batchVars, tlocal, handle,
                   constructed, collection_exists, creates, ensures, ipc, caller,
                   iargs, ichunks, iret, touched, ncalls, repeat, snap, response>>

NextClient ==
    \/ \E t \in Threads, c \in ClientKinds : ClientEnter(t, c)
    \/ \E t \in Threads : ClientCheck(t)
    \/ \E t \in Threads : ClientConstructOk(t)
    \/ \E t \in Threads : ClientConstructRaises(t)
    \/ \E t \in Threads : ClientAssign(t)
    \/ \E t \in Threads : ClientReturn(t)

SpecClient == InitClient /\ [][NextClient]_vars

----------------------------------------------------------------------------
(* delete_regulation_data, and the three operations on one collection      *)

DeleteArgs == {"GDPR", "dsa"}

LifeRegulations == {"gdpr", "dsa"}
LifeContents == {<<"a">>, LongDiffer}

\* a delete whose filter holds the code as it was given
DeletedExactCase(st, regulation) ==
    SelectSeq(st, LAMBDA p : ~ConditionHolds(p, regulation))

\* routes/ingest.py lines 129-139: client.delete with a must-filter on
\* regulation.lower()
Deleted(st, regulation) ==
    SelectSeq(st, LAMBDA p : ~ConditionHolds(p, LowerCode(regulation)))

\* routes/ingest.py lines 120-144; o is what the store does
delete_regulation_data(regulation, o) ==
    /\ IngestFree
    /\ pc = "idle"
    /\ started # "no"
    /\ o \in {"ok", "raises"}
    /\ o = "ok" => collection_exists
    /\ store' = IF o = "ok" THEN Deleted(store, regulation) ELSE store
    /\ dreg' = regulation
    /\ response' = IF o = "ok" THEN "deleted" ELSE "http_500"
    /\ UNCHANGED <<searchVars, chunkVars, idVars, concVars, batchVars,
                   collection_exists, creates, ensures, ipc, caller, iargs,
                   ichunks, iret, touched, ncalls, repeat, snap, started>>

\* the handlers run one at a time on the event loop: a search starts when no
\* ingestion is under way, an ingestion when no search is
LifeSearch(q, regs, kk) == IngestFree /\ started # "no" /\ Call(q, regs, kk)

LifeIngest(regulation, content, article_no) ==
    pc = "idle" /\ RouteIngest(regulation, content, article_no)

\* the search handler has answered; the client it obtained stays
SearchDone ==
    /\ pc \in {"returned", "raised"}
    /\ pc' = "idle"
    /\ query' = <<>>
    /\ regulations' = <<>>
    /\ k' = 0
    /\ article_num' = None
    /\ search_filter' = NoFilter
    /\ sim' = <<>>
    /\ chunks' = <<>>
    /\ ret' = <<>>
    /\ calls' = <<>>
    /\ failed' = ""
    /\ UNCHANGED <<store, client, chunkVars, extVars>>

NextLifecycle ==
    \/ \E o \in EnsureOutcomes : Startup(o)
    \/ \E r \in LifeRegulations, c \in LifeContents, a \in IngestArticles :
          LifeIngest(r, c, a)
    \/ \E o \in EnsureOutcomes : IngestEnsure(o)
    \/ IngestEmbedOk
    \/ IngestEmbedRaises
    \/ IngestUpsertOk
    \/ IngestUpsertRaises
    \/ RouteRespond
    \/ \E r \in DeleteArgs, o \in {"ok", "raises"} : delete_regulation_data(r, o)
    \/ \E q \in Queries : LifeSearch(q, <<"GDPR">>, MaxK)
    \/ GetClientOk
    \/ GetClientRaises
    \/ EmbedOk
    \/ EmbedRaises
    \/ QueryOk
    \/ QueryRaises
    \/ ReturnPlain
    \/ Boost
    \/ Fallback
    \/ FallbackScrollRaises
    \/ SearchDone

SpecLifecycle == InitIngest /\ [][NextLifecycle]_vars

----------------------------------------------------------------------------
(* ensure_collection_exists called from several threads: startup_event on  *)
(* the event loop, then request handlers on the event loop and background  *)
(* batch ingestions on pool threads (ingest_document line 139).  tlocal    *)
(* holds what the thread read at line 45 (obj 1: the name is listed); got  *)
(* holds how each call ended.                                              *)

InitEnsure ==
    /\ collection_exists \in BOOLEAN
    /\ store = <<>>
    /\ SearchIdle
    /\ ChunkIdle
    /\ IdIdle
    /\ IngestIdle
    /\ BatchIdle
    /\ dreg = ""
    /\ tpc = [t \in Threads |-> "idle"]
    /\ tlocal = [t \in Threads |-> NoLocals]
    /\ handle = [c \in ClientKinds |-> 0]
    /\ constructed = [c \in ClientKinds |-> 0]
    /\ got = [t \in Threads |-> <<>>]

\* a thread calls ensure_collection_exists; before startup_event has ended
\* only the event loop does
EnsureEnter(t) ==
    /\ tpc[t] = "idle"
    /\ tlocal[t].calls < MaxClientCalls
    /\ started = "no" => t = 0
    /\ tpc' = [tpc EXCEPT ![t] = "list"]
    /\ tlocal' = [tlocal EXCEPT ![t] = [kind |-> "ensure", obj |-> 0, calls |-> @.calls + 1]]
    /\ UNCHANGED <<store, searchVars, chunkVars, idVars, delVars, ingestVars, batchVars,
                   handle, constructed, got>>

\* retrieval.py lines 42-43: get_collections answers
EnsureList(t) ==
    /\ tpc[t] = "list"
    /\ tlocal' = [tlocal EXCEPT ![t].obj = IF collection_exists THEN 1 ELSE 0]
    /\ tpc' = [tpc EXCEPT ![t] = "test"]
    /\ UNCHANGED <<store, searchVars, chunkVars, idVars, delVars, ingestVars, batchVars,
                   handle, constructed, got>>

\* retrieval.py line 42 raises while the store cannot be reached at startup;
\* startup_event catches and logs it (main.py lines 50-52)
EnsureListRaises(t) ==
    /\ tpc[t] = "list"
    /\ InStartup(t)
    /\ tpc' = [tpc EXCEPT ![t] = "idle"]
    /\ got' = [got EXCEPT ![t] = Append(@, [kind |-> "unreachable", obj |-> 0])]
    /\ started' = "warned"
    /\ UNCHANGED <<store, searchVars, chunkVars, idVars, delVars, batchVars, tlocal, handle,
                   constructed, collection_exists, creates, ensures, ipc, caller,
                   iargs, ichunks, iret, touched, ncalls, repeat, snap, response>>

\* retrieval.py line 45 false: the name was listed
EnsureSkip(t) ==
    /\ tpc[t] = "test"
    /\ tlocal[t].obj = 1
    /\ tpc' = [tpc EXCEPT ![t] = "idle"]
    /\ got' = [got EXCEPT ![t] = Append(@, [kind |-> "ok", obj |-> 1])]
    /\ started' = IF InStartup(t) THEN "ready" ELSE started
    /\ UNCHANGED <<store, searchVars, chunkVars, idVars, delVars, batchVars, tlocal, handle,
                   constructed, collection_exists, creates, ensures, ipc, caller,
                   iargs, ichunks, iret, touched, ncalls, repeat, snap, response>>

\* retrieval.py lines 45-53: create_collection is called; the store refuses
\* to create a collection that exists, and the exception leaves the function
EnsureCreate(t) ==
    /\ tpc[t] = "test"
    /\ tlocal[t].obj = 0
    /\ creates' = creates + 1
    /\ collection_exists' = TRUE
    /\ tpc' = [tpc EXCEPT ![t] = "idle"]
    /\ got' = [got EXCEPT ![t] =
                 Append(@, IF collection_exists THEN [kind |-> "conflict", obj |-> 0]
                           ELSE [kind |-> "ok", obj |-> 1])]
    /\ started' = IF InStartup(t) THEN "ready" ELSE started
    /\ UNCHANGED <<store, searchVars, chunkVars, idVars, delVars, batchVars, tlocal, handle,
                   constructed, ensures, ipc, caller, iargs, ichunks, iret, touched,
                   ncalls, repeat, snap, response>>

NextEnsure ==
    \/ \E t \in Threads : EnsureEnter(t)
    \/ \E t \in Threads : EnsureList(t)
    \/ \E t \in Threads : EnsureListRaises(t)
    \/ \E t \in Threads : EnsureSkip(t)
    \/ \E t \in Threads : EnsureCreate(t)

SpecEnsure == InitEnsure /\ [][NextEnsure]_vars

----------------------------------------------------------------------------
(* ingest_document called with regulation codes in either letter case      *)

CaseRegulations == {"gdpr", "GDPR"}
CaseContents == {<<"a">>, LongDiffer}

\* a caller passes its arguments to ingest_document as they are (its
\* signature takes any str, lines 131-137)
DirectIngest(regulation, content, article_no) ==
    /\ IngestFree
    /\ ncalls < MaxIngests
    /\ StartIngest("direct", regulation, content, article_no)
    /\ UNCHANGED <<store, searchVars, chunkVars, idVars, concVars, delVars, batchVars,
                   collection_exists, creates, ensures, started, response>>

\* ingest_document has returned (line 174) or raised to that caller
DirectReturn ==
    /\ caller = "direct"
    /\ ipc \in {"returned", "raised"}
    /\ ipc' = "idle"
    /\ UNCHANGED <<store, searchVars, chunkVars, idVars, concVars, delVars, batchVars,
                   collection_exists, creates, ensures, caller, iargs, ichunks, iret,
                   touched, ncalls, repeat, snap, started, response>>

NextCase ==
    \/ \E r \in CaseRegulations, c \in CaseContents, a \in IngestArticles :
           DirectIngest(r, c, a)
    \/ \E o \in EnsureOutcomes : IngestEnsure(o)
    \/ IngestEmbedOk
    \/ IngestEmbedRaises
    \/ IngestUpsertOk
    \/ IngestUpsertRaises
    \/ DirectReturn

SpecCase == InitIngest /\ [][NextCase]_vars

----------------------------------------------------------------------------
(* Properties of search_regulations, checked under Spec                    *)

Returned == pc = "returned"

\* the call returned a list built from similarity results (the query did not fail)
Ranked == pc = "returned" /\ failed # "query_points"

RequestedCodes == {LowerCode(regulations[i]) : i \in 1..Len(regulations)}

NonIncreasing(cs) == \A i \in 1..(Len(cs) - 1) : cs[i].score >= cs[i + 1].score

\* C1: with a non-empty list of regulation codes, every returned item has a
\* regulation equal to one of the requested codes, lowercased, on every path
\* of the search, the fallback scan included.
C1_OnlyRequestedRegulations ==
    (Returned /\ Len(regulations) > 0)
        => \A i \in 1..Len(ret) : ret[i].regulation \in RequestedCodes

\* C2: when the query names article N, the store holds a chunk with
\* article_no N and the similarity results hold none, the first returned
\* item is a stored chunk with article_no N and score 0.9.  Stated here for
\* the runs in which no gateway call fails and the chunk is among the first
\* ScrollLimit points enumerated; the claim asks for the same of every store
\* size.
C2_NamedArticleFirst ==
    ( /\ Returned
      /\ failed = ""
      /\ article_num # None
      /\ \E i \in 1..Len(Scroll(store)) :
            store[i].has_payload /\ store[i].article_no = article_num
      /\ \A i \in 1..Len(sim) : sim[i].article_no # article_num )
        => /\ Len(ret) >= 1
           /\ ret[1].article_no = article_num
           /\ ret[1].score = FALLBACK_SCORE
           /\ \E i \in 1..Len(store) :
                 /\ store[i].has_payload
                 /\ store[i].content = ret[1].content
                 /\ store[i].article_no = article_num

\* C3 as claimed: the scores of the returned items are non-increasing from
\* the first item to the last, also after boosting and after the fallback.
C3_ScoresNonIncreasing == Returned => NonIncreasing(ret)

\* C3 as amended: the scores are non-increasing among the returned items
\* whose article_no equals the article number detected in the query and
\* among the returned items whose article_no differs from it; when the query
\* names no article the whole list is non-increasing.
C3_NonIncreasingWithinGroups ==
    Returned =>
        /\ \A i, j \in 1..Len(ret) :
              (i < j /\ (IsMatch(ret[i], article_num) <=> IsMatch(ret[j], article_num)))
                  => ret[i].score >= ret[j].score
        /\ article_num = None => NonIncreasing(ret)

\* a boosted item is returned ahead of an item of the other group that has a higher score
C3_Witness ==
    /\ Returned
    /\ Truthy(article_num)
    /\ Len(ret) >= 2
    /\ IsMatch(ret[1], article_num)
    /\ ~IsMatch(ret[2], article_num)
    /\ ret[1].score < ret[2].score
    /\ ret[1].score > sim[2].score

\* C4: the returned list has at most k items, also when the fallback scan
\* prepends items to a list that already holds k similarity results.
C4_AtMostK == Returned => Len(ret) <= k

\* the fallback prepended to k similarity results and the list was cut back to k
C4_Witness ==
    /\ Returned
    /\ Len(sim) = k
    /\ Len(chunks) > k
    /\ Len(ret) = k
    /\ ret[1].score = FALLBACK_SCORE

\* C5: when the query names article N, every similarity result whose
\* article_no equals N is returned with score min(s + 0.3, 1.0), and no
\* returned score exceeds 1.0 (no stored score does).
C5_MatchingResultsBoosted ==
    (Ranked /\ article_num # None) =>
        /\ \A i \in 1..Len(sim) :
              sim[i].article_no = article_num
                  => \E j \in 1..Len(ret) :
                        ret[j] = [sim[i] EXCEPT !.score = Min(sim[i].score + BOOST, SCORE_CAP)]
        /\ \A j \in 1..Len(ret) : ret[j].score <= SCORE_CAP

\* C6: search_regulations never raises to its caller, whichever gateway
\* call fails.
C6_NeverRaises == pc # "raised"

\* C7: when the nearest-neighbour query raises, search_regulations returns
\* the empty list, without running the article boost or the fallback scan.
C7_QueryFailureReturnsEmpty ==
    failed = "query_points" =>
        /\ pc = "returned"
        /\ ret = <<>>
        /\ chunks = <<>>
        /\ calls = <<"get_client", "embed", "query_points">>

\* the query failed on a search that names an article the store holds
C7_Witness ==
    /\ failed = "query_points"
    /\ pc = "returned"
    /\ Truthy(article_num)
    /\ \E i \in 1..Len(store) : store[i].has_payload /\ store[i].article_no = article_num

\* C8: when the fallback scan fails (scroll raises, or a point without
\* payload is met), the returned list is the first k similarity results
\* unchanged, with no fallback item prepended.
C8_FailedScanLeavesResults ==
    (Returned /\ failed \in {"scroll", "scan"}) => ret = Truncate(sim, k)

----------------------------------------------------------------------------
(* Properties of chunk_text, checked under SpecChunk                       *)

\* C9: with 0 <= overlap < chunk_size, the window start strictly increases
\* on every loop iteration, also when a sentence-aligned cut shortens the
\* window.
C9_StartIncreases ==
    [][(ChunkStep /\ overlap < chunk_size) => start' > start]_vars

\* C10: with overlap >= chunk_size and len(text) > chunk_size, the window
\* start advances by at least one character on every loop iteration.
C10_StartAdvances ==
    [][(ChunkStep /\ overlap >= chunk_size) => start' >= start + 1]_vars

\* C11: for every text with len(text) <= chunk_size, chunk_text returns
\* exactly one chunk, equal to the input with leading and trailing
\* whitespace trimmed.
C11_ShortTextOneTrimmedChunk ==
    (cpc = "done" /\ Len(text) <= chunk_size) => out = <<Strip(text)>>

\* C13: with 0 <= overlap < chunk_size the windows cover the text: the
\* first window starts at 0, each later window starts at or before the end
\* of the one before, and the last window reaches len(text).  A run that
\* ends takes at most len(text) windows, so the last part is stated as:
\* once len(text) windows are cut, the last one has reached len(text).
C13_WindowsCoverText ==
    (cpc # "idle" /\ Len(text) > chunk_size /\ overlap < chunk_size) =>
        /\ iter = 0 => start = 0
        /\ iter >= 1 => start <= cend
        /\ cpc = "done" => cend >= Len(text)
        /\ iter >= Len(text) => cend >= Len(text)

\* C14: every chunk returned by chunk_text is non-empty and has length at
\* most chunk_size, on the short-text path and on the windowing path.
C14_ChunksNonEmptyBounded ==
    cpc = "done" =>
        \A i \in 1..Len(out) : Len(out[i]) >= 1 /\ Len(out[i]) <= chunk_size

\* C19: generate_point_id is a function of the triple (regulation,
\* article_no, first 100 characters of content) only: two calls whose
\* arguments agree on that triple return the same identifier, also when the
\* contents differ after character 100, and, the hash being injective, two
\* calls with the same content and regulation and different article_no
\* return different identifiers.
C19_IdFunctionOfTriple ==
    idout # <<>> =>
        LET x == idargs[1]
            y == idargs[2]
        IN  /\ ( /\ x.regulation = y.regulation
                 /\ x.article_no = y.article_no
                 /\ \A i \in 1..IdPrefixLen :
                        /\ (i <= Len(x.content)) = (i <= Len(y.content))
                        /\ i <= Len(x.content) => x.content[i] = y.content[i] )
               => idout[1] = idout[2]
            /\ ( /\ x.content = y.content
                 /\ x.regulation = y.regulation
                 /\ x.article_no # y.article_no )
               => idout[1] # idout[2]

\* two contents that agree on their first 100 characters and differ after
\* them were given the same identifier
C19_Witness ==
    /\ idout # <<>>
    /\ idargs[1].content # idargs[2].content
    /\ Len(idargs[1].content) > IdPrefixLen
    /\ idargs[1].regulation = idargs[2].regulation
    /\ idargs[1].article_no = idargs[2].article_no
    /\ idout[1] = idout[2]

----------------------------------------------------------------------------
(* Properties of ingestion, checked under SpecIngest                       *)

Range(s) == {s[i] : i \in 1..Len(s)}

RECURSIVE Sum(_)
Sum(s) == IF s = <<>> THEN 0 ELSE Head(s) + Sum(Tail(s))

\* the ingest_document call has got its chunks from chunk_text
Chunked == ipc \in {"embed", "upsert", "returned"}

\* C12: for empty or whitespace-only content chunk_text returns an empty
\* sequence, ingest_document writes nothing to the store and returns 0, and
\* the route does not report success.
C12_EmptyContentWritesNothing ==
    Strip(iargs.content) = <<>> =>
        /\ Chunked => ichunks = <<>>
        /\ ipc = "returned" => (iret = 0 /\ store = snap)
        /\ response # "success"

C16_ReturnCountsEntries ==
    ipc = "returned" =>
        /\ iret = Cardinality(touched)
        /\ snap = <<>> => Len(store) = iret

\* C17: ingest_gdpr_batch attempts the articles in list order, an article
\* that fails (scrape, embed, upsert or the collection bootstrap) does not
\* stop the later ones, the batch ends by returning, and the total it
\* returns is the sum of the counts ingest_document returned for its articles.
C17_BatchAttemptsAllAndSums ==
    /\ bpc \in {"idle", "loop", "ingesting", "done"}
    /\ bpc = "loop" => attempts = SubSeq(barticles, 1, bidx - 1)
    /\ bpc = "ingesting" => attempts = SubSeq(barticles, 1, bidx)
    /\ bpc = "done" => (attempts = barticles /\ total = Sum(succeeded))

\* a batch of two articles returned after its first article raised and its
\* second was ingested
C17_Witness ==
    /\ bpc = "done"
    /\ started = "no"
    /\ Len(barticles) = 2
    /\ ncalls = 2
    /\ Len(succeeded) = 1
    /\ iret # None
    /\ total >= 1

\* the ensure_collection_exists call of this step returned without raising
EnsureReturned == (started = "no" /\ started' = "ready") \/ ipc' = "embed"

C20_StablePartition ==
    ( /\ Ranked
      /\ article_num # None
      /\ \E i \in 1..Len(sim) : sim[i].article_no = article_num )
        => LET matching == SelectSeq(sim, LAMBDA c : c.article_no = article_num)
               others == SelectSeq(sim, LAMBDA c : c.article_no # article_num)
           IN  /\ Len(ret) = Len(sim)
               /\ \A j \in 1..Len(matching) :
                     [ret[j] EXCEPT !.score = 0] = [matching[j] EXCEPT !.score = 0]
               /\ \A j \in 1..Len(others) : ret[Len(matching) + j] = others[j]
               /\ \A i \in 1..Len(calls) : calls[i] # "scroll"

\* C21: when the query names article N, no similarity result has article_no
\* N and the scroll answers, the list before the cut to k is the stored
\* chunks with article_no N among the first 100 enumerated, each with score
\* 0.9 and in the reverse of their enumeration order, followed by the
\* similarity results in their order with their scores; the returned list
\* is its first k items.
C21_FallbackPrepends ==
    ( /\ Ranked
      /\ article_num # None
      /\ failed # "scroll"
      /\ \A i \in 1..Len(sim) : sim[i].article_no # article_num )
        => LET window == SubSeq(store, 1, Min(Len(store), ScrollLimit))
               hits == SelectSeq(window,
                                 LAMBDA p : p.has_payload /\ p.article_no = article_num)
               front == [i \in 1..Len(hits) |->
                            [content |-> hits[Len(hits) + 1 - i].content,
                             regulation |-> hits[Len(hits) + 1 - i].regulation,
                             article_no |-> article_num,
                             score |-> FALLBACK_SCORE]]
           IN  /\ chunks = front \o sim
               /\ ret = SubSeq(chunks, 1, Min(Len(chunks), k))

\* C22: the re-ranking step runs exactly when detect_article_number found a
\* number: for every detected N >= 0 the boost is applied with N when a
\* similarity result has article_no N and the fallback scroll is made when
\* none has; when no number is detected the similarity results are
\* returned in the order the store gave them with unchanged scores and the
\* store is not scrolled.
C22_RerankIffDetected ==
    Ranked =>
        IF article_num = None
        THEN /\ ret = sim
             /\ \A i \in 1..Len(calls) : calls[i] # "scroll"
        ELSE IF \E i \in 1..Len(sim) : sim[i].article_no = article_num
             THEN /\ ret = BoostPartition(sim, article_num)
                  /\ \A i \in 1..Len(calls) : calls[i] # "scroll"
             ELSE \E i \in 1..Len(calls) : calls[i] = "scroll"

----------------------------------------------------------------------------
(* Properties of detect_article_number, checked under SpecDetect           *)

\* the forms the claim lists, in lower case
AcceptedForms ==
    { <<"a", "r", "t", "i", "c", "l", "e">>,
      <<"a", "r", "t">>,
      <<"a", "r", "t", ".">>,
      <<"a", "r", "t", "i", "c", "l", "e", " ", "#">>,
      <<"g", "d", "p", "r">>,
      <<"d", "s", "a">>,
      <<"n", "i", "s", "2">>,
      <<"a", "i", "a", "c", "t">> }

\* the numbers of the accepted forms that a query built from f, n and t holds
Occurring(f, n, t) ==
    (IF Lower(f) \in AcceptedForms /\ n # <<>>
     THEN {ParseInt(n, 1, Len(n) + 1, 0)} ELSE {})
    \cup (IF t = <<" ", "g", "d", "p", "r", " ", "3">> THEN {3} ELSE {})
    \cup (IF t = <<" ", "a", "r", "t", "i", "c", "l", "e", " ", "4">> THEN {4} ELSE {})

\* C23: detect_article_number, case-insensitively, returns N for a query
\* that holds one of the forms 'article N', 'art N', 'art. N', 'article #N'
\* or a regulation mnemonic (gdpr, dsa, nis2, aiact) followed by N; when
\* several forms occur it returns the number of one of them; and it returns
\* None for a query that holds none of the forms.
C23_DetectsAcceptedForms ==
    pc = "detected" =>
        \A h \in QueryHeads, f \in QueryForms, s \in QuerySeps, n \in QueryNumbers,
           t \in PlainTails \cup FormTails :
            query = h \o f \o s \o n \o t =>
                IF Occurring(f, n, t) = {} THEN article_num = None
                ELSE article_num \in Occurring(f, n, t)

----------------------------------------------------------------------------
(* Properties of the client handles, checked under SpecClient              *)

\* C24: under any interleaving of the threads, at most one vector store
\* client object is ever constructed and every call of get_qdrant_client
\* that returns gives that same object.
C24_OneClientObject ==
    /\ constructed["qdrant"] <= 1
    /\ \A t \in Threads : \A i \in 1..Len(got[t]) :
          (got[t][i].kind = "qdrant" /\ got[t][i].obj # 0) => got[t][i].obj = 1
----------------------------------------------------------------------------
(* Properties of the collection across ingestion, search and deletion,     *)
(* checked under SpecLifecycle                                             *)

\* a step of delete_regulation_data that the store answered
DeleteStep ==
    /\ ipc = "idle" /\ ipc' = "idle"
    /\ pc = "idle" /\ pc' = "idle"
    /\ started' = started
    /\ response' = "deleted"

\* C25: an identifier leaves the store only in a step of
\* delete_regulation_data; that step removes exactly the entries whose
\* regulation is the lowercased argument and leaves the others as they were,
\* in their order; no step of search_regulations changes the store
C25_OnlyDeleteRemoves ==
    [][ /\ (PointIds(store) \ PointIds(store') # {}) => DeleteStep
        /\ DeleteStep =>
             /\ \A i \in 1..Len(store') : store'[i].regulation # LowerCode(dreg')
             /\ store' = SelectSeq(store, LAMBDA p : p.regulation # LowerCode(dreg'))
        /\ (pc # "idle" \/ pc' # "idle") => store' = store ]_vars

\* a delete of 'GDPR' after a search and an ingestion of gdpr chunks: the
\* dsa entries are all that is left
C25_Witness ==
    /\ response = "deleted"
    /\ dreg = "GDPR"
    /\ client = "qdrant"
    /\ iargs.regulation = "gdpr"
    /\ iret = 2
    /\ store # <<>>
    /\ \A i \in 1..Len(store) : store[i].regulation = "dsa"
----------------------------------------------------------------------------
(* Further properties of search_regulations, checked under Spec            *)

\* how many entries of cs were made from the stored chunk with content c
\* (every chunk with a payload has a content of its own; 0 stands for the
\* points without payload, which the results cannot tell apart)
Copies(cs, c) == Cardinality({i \in 1..Len(cs) : cs[i].content = c})

StoredCopies(c) ==
    Cardinality({i \in 1..Len(store) :
                    IF c = 0 THEN ~store[i].has_payload
                    ELSE store[i].has_payload /\ store[i].content = c})

\* C26: no stored chunk is returned twice: the returned list holds each chunk
\* at most as often as the store does; the reordered list holds every
\* similarity result exactly once when some result matches the article, and
\* a chunk that the scan prepends is not among the similarity results
C26_NoChunkTwice ==
    Returned =>
        /\ \A i \in 1..Len(ret) : Copies(ret, ret[i].content) <= StoredCopies(ret[i].content)
        /\ (failed = "" /\ Truthy(article_num)
              /\ \E i \in 1..Len(sim) : sim[i].article_no = article_num)
             => /\ Len(chunks) = Len(sim)
                /\ \A i \in 1..Len(sim) :
                      Copies(chunks, sim[i].content) = Copies(sim, sim[i].content)
        /\ \A i \in 1..(Len(chunks) - Len(sim)) :
              Copies(sim, chunks[i].content) = 0

\* a fallback answer of two chunks, one from the scan and one from the
\* similarity search
C26_Witness ==
    /\ Returned
    /\ failed = ""
    /\ Len(sim) = 1
    /\ Len(ret) = 2
    /\ ret[1].score = FALLBACK_SCORE
    /\ ret[2] = sim[1]
----------------------------------------------------------------------------
(* Property of ensure_collection_exists under concurrent calls, checked    *)
(* under SpecEnsure                                                        *)

\* C27: however the calls of ensure_collection_exists interleave,
\* create_collection is called at most once and no call is refused by the
\* store because the collection is already there
C27_EnsureAtomic ==
    /\ creates <= 1
    /\ \A t \in Threads : \A i \in 1..Len(got[t]) : got[t][i].kind # "conflict"
----------------------------------------------------------------------------
(* Property of the identifiers across letter case, checked under SpecCase  *)

\* C28: every stored regulation code is lowercase, and no two entries of the
\* store have the same regulation, article_no and content (ingestions whose
\* regulation arguments differ only in letter case write the same entries)
C28_IdentityIgnoresCase ==
    /\ \A i \in 1..Len(store) : store[i].regulation = LowerCode(store[i].regulation)
    /\ \A i, j \in 1..Len(store) :
          ( /\ store[i].regulation = store[j].regulation
            /\ store[i].article_no = store[j].article_no
            /\ store[i].content = store[j].content ) => i = j
----------------------------------------------------------------------------
(* Further property of chunk_text, checked under SpecChunk                 *)

\* C29: with 0 <= overlap < chunk_size, once a window has reached the end of
\* the text no later iteration of the loop emits a chunk (such a chunk would
\* lie wholly inside the span of the chunk before it and end at the end of
\* the text as well)
C29_NoChunkAfterEnd ==
    [][ ( /\ ChunkStep
          /\ overlap < chunk_size
          /\ iter >= 1
          /\ cend >= Len(text) ) => out' = out ]_vars
----------------------------------------------------------------------------
(* Frame of ingest_document, checked under SpecIngest                      *)

\* the identifiers of the chunks the call under way (or the last call) ingests
IngestedIds == PointIds(BuildPoints(ichunks, iargs.regulation, iargs.article_no))

\* C30: from its entry on, a call of ingest_document leaves every entry
\* whose identifier is not one of its chunks' as it was and where it was,
\* removes no identifier, and adds only entries with its chunks' identifiers
C30_IngestFrame ==
    ncalls >= 1 =>
        /\ Len(store) >= Len(snap)
        /\ \A i \in 1..Len(snap) :
              /\ store[i].id = snap[i].id
              /\ snap[i].id \notin IngestedIds => store[i] = snap[i]
        /\ \A i \in (Len(snap) + 1)..Len(store) : store[i].id \in IngestedIds

\* an ingestion for a regulation and article that already had an entry with
\* another content: the entry is kept and two are added
C30_Witness ==
    /\ ipc = "returned"
    /\ Len(snap) = 1
    /\ snap[1].regulation = LowerCode(iargs.regulation)
    /\ snap[1].article_no = iargs.article_no
    /\ snap[1].id \notin touched
    /\ store[1] = snap[1]
    /\ Len(store) = 3

====
